---- MODULE Spec2Model ----
(***************************************************************************)
(* Model of launch_gemma_api.py: main() is one sequential procedure.  Each *)
(* statement (or group of adjacent statements) of main() is one action;    *)
(* pc holds the position of the single thread of control.  The facts main  *)
(* reads from its host (file system, installed packages, CPU count,        *)
(* process environment) are chosen in Init and never change; calls into    *)
(* code outside the repository either return or raise, as chosen by        *)
(* failAt.                                                                 *)
(***************************************************************************)
EXTENDS Integers, Sequences, FiniteSets, TLC

VARIABLES
    pc,                \* position in main(), or "serving" / "exited"
    environ,           \* os.environ: function from the names present to values
    environ0,          \* os.environ as it was when main() was entered
    modelExists,       \* result of model_path.exists()
    libImportable,     \* FALSE: the llama_cpp.server imports raise ImportError
    cpus,              \* what multiprocessing.cpu_count() returns
    failAt,            \* which external call (if any) raises in this run
    modules,           \* modules imported by main() so far
    cpu_count,         \* local: <<>> until assigned
    inference_threads, \* local: <<>> until assigned
    server_settings,   \* local: <<>> until assigned
    model_settings,    \* local: <<>> until assigned
    app,               \* local: <<>> until assigned
    runArgs,           \* arguments of the uvicorn.run call: <<>> until called
    stderr,            \* what was written to the error stream, in order
    exitStatus,        \* <<>> while the process lives, <<status>> once it ended
    trace              \* the steps of main() executed so far, in order

vars == <<pc, environ, environ0, modelExists, libImportable, cpus, failAt,
          modules, cpu_count, inference_threads, server_settings,
          model_settings, app, runArgs, stderr, exitStatus, trace>>

(* ------------------------------ bounds -------------------------------- *)

MaxCpu == 8

(* ------------------------- program constants -------------------------- *)

HOST == "127.0.0.1"
PORT == 54546
N_CTX == 32768
N_GPU_LAYERS == 0
N_BATCH == 1024
N_UBATCH == 1024
\* 4 << 30 bytes, kept as <<value, shift>>: the product does not fit the
\* 32-bit integers of TLC and no step of main() computes with it.
CACHE_SIZE == <<4, 30>>

MODEL_PATH == "Model/gemma-3-270m-it-Q8_0.gguf"

GpuVars == {"LLAMA_CUBLAS", "LLAMA_METAL", "CUDA_VISIBLE_DEVICES"}

\* The names and values an initial environment is drawn from: the three GPU
\* variables and one unrelated variable; "1" and "0" for CUDA_VISIBLE_DEVICES
\* and "1" for the LLAMA_ variables are values that request GPU use.
EnvNames == GpuVars \cup {"PATH"}
EnvValues == {"0", "1", "-1"}

MissingModelMsg == <<"[!] Model file not found: " \o MODEL_PATH>>

InstallLine == "    Install it with: pip install \"llama-cpp-python[server]\""

MissingDependencyMsg_NoInstall ==
    <<"[!] Missing dependency: llama-cpp-python with server extras.">>

MissingDependencyMsg ==
    <<"[!] Missing dependency: llama-cpp-python with server extras.",
      InstallLine>>

\* What the interpreter writes for an exception nothing catches.
Traceback == <<"Traceback (most recent call last):">>

\* The statements of main(), in program order.
Order == <<"check_model", "import_lib", "env_defaults", "cpu_count",
           "ServerSettings", "ModelSettings", "create_app", "uvicorn", "run">>

FailPoints == {"ServerSettings", "ModelSettings", "create_app", "uvicorn"}

(* ----------------------------- helpers -------------------------------- *)

Max(a, b) == IF a >= b THEN a ELSE b

\* dict.setdefault on os.environ
SetDefault_Overwrite(env, k, v) ==
    [x \in DOMAIN env \cup {k} |-> IF x = k THEN v ELSE env[x]]

SetDefault(env, k, v) ==
    IF k \in DOMAIN env
    THEN env
    ELSE [x \in DOMAIN env \cup {k} |-> IF x = k THEN v ELSE env[x]]

ForceCpu(env) ==
    SetDefault(SetDefault(SetDefault(env,
        "LLAMA_CUBLAS", "0"), "LLAMA_METAL", "0"), "CUDA_VISIBLE_DEVICES", "-1")

InferenceThreads_NoFloor(c) == c - 1

InferenceThreads(c) == Max(c - 1, 1)

ServerSettings_AllInterfaces ==
    [host |-> "0.0.0.0", port |-> PORT, interrupt_requests |-> TRUE,
     ssl_keyfile |-> "None", ssl_certfile |-> "None"]

\* ServerSettings(host=..., port=..., interrupt_requests=True); the two ssl
\* fields are read back at the uvicorn.run call and are not set by main().
ServerSettings ==
    [host |-> HOST, port |-> PORT, interrupt_requests |-> TRUE,
     ssl_keyfile |-> "None", ssl_certfile |-> "None"]

ModelSettings(threads, batch_threads) ==
    [model |-> MODEL_PATH, model_alias |-> "gemma-3-270m-it",
     chat_format |-> "gemma", n_ctx |-> N_CTX, n_gpu_layers |-> N_GPU_LAYERS,
     n_threads |-> threads, n_threads_batch |-> batch_threads,
     n_batch |-> N_BATCH, n_ubatch |-> N_UBATCH,
     use_mmap |-> TRUE, use_mlock |-> FALSE,
     cache |-> TRUE, cache_type |-> "ram", cache_size |-> CACHE_SIZE,
     offload_kqv |-> FALSE, flash_attn |-> FALSE, logits_all |-> FALSE,
     verbose |-> TRUE]

\* sys.exit(code) / raise SystemExit(code)
Exit(code) ==
    /\ pc' = "exited"
    /\ exitStatus' = <<code>>

\* An exception that main() does not catch: traceback on stderr, status 1.
Uncaught ==
    /\ stderr' = stderr \o Traceback
    /\ Exit(1)

Step(name) == trace' = Append(trace, name)

(* ------------------------------- Init --------------------------------- *)

Init ==
    /\ pc = "check_model"
    /\ environ \in UNION {[S -> EnvValues] : S \in SUBSET EnvNames}
    /\ environ0 = environ
    /\ modelExists \in BOOLEAN
    /\ libImportable \in BOOLEAN
    /\ cpus \in 1..MaxCpu
    /\ failAt \in FailPoints \cup {"none"}
    /\ modules = {}
    /\ cpu_count = <<>>
    /\ inference_threads = <<>>
    /\ server_settings = <<>>
    /\ model_settings = <<>>
    /\ app = <<>>
    /\ runArgs = <<>>
    /\ stderr = <<>>
    /\ exitStatus = <<>>
    /\ trace = <<>>

(* ------------------------------ actions ------------------------------- *)

CheckModel_NoExit ==
    /\ pc = "check_model"
    /\ Step("check_model")
    /\ stderr' = IF modelExists THEN stderr ELSE stderr \o MissingModelMsg
    /\ pc' = "import_lib"
    /\ UNCHANGED <<environ, environ0, modelExists, libImportable, cpus,
                   failAt, modules, cpu_count, inference_threads,
                   server_settings, model_settings, app, runArgs, exitStatus>>

\* if not model_path.exists(): print(...); sys.exit(1)
CheckModel ==
    /\ pc = "check_model"
    /\ Step("check_model")
    /\ IF ~modelExists
       THEN /\ stderr' = stderr \o MissingModelMsg
            /\ Exit(1)
       ELSE /\ pc' = "import_lib"
            /\ UNCHANGED <<stderr, exitStatus>>
    /\ UNCHANGED <<environ, environ0, modelExists, libImportable, cpus,
                   failAt, modules, cpu_count, inference_threads,
                   server_settings, model_settings, app, runArgs>>

ImportLib_EnvFirst ==
    /\ pc = "import_lib"
    /\ Step("import_lib")
    /\ environ' = ForceCpu(environ)
    /\ IF ~libImportable
       THEN /\ stderr' = stderr \o MissingDependencyMsg
            /\ Exit(1)
            /\ UNCHANGED modules
       ELSE /\ modules' = modules \cup {"llama_cpp.server"}
            /\ pc' = "env_defaults"
            /\ UNCHANGED <<stderr, exitStatus>>
    /\ UNCHANGED <<environ0, modelExists, libImportable, cpus, failAt,
                   cpu_count, inference_threads, server_settings,
                   model_settings, app, runArgs>>

\* try: from llama_cpp.server... import ...
\* except ImportError: print(...); raise SystemExit(1)
ImportLib ==
    /\ pc = "import_lib"
    /\ Step("import_lib")
    /\ IF ~libImportable
       THEN /\ stderr' = stderr \o MissingDependencyMsg
            /\ Exit(1)
            /\ UNCHANGED modules
       ELSE /\ modules' = modules \cup {"llama_cpp.server"}
            /\ pc' = "env_defaults"
            /\ UNCHANGED <<stderr, exitStatus>>
    /\ UNCHANGED <<environ, environ0, modelExists, libImportable, cpus,
                   failAt, cpu_count, inference_threads, server_settings,
                   model_settings, app, runArgs>>

\* the three os.environ.setdefault calls
EnvDefaults ==
    /\ pc = "env_defaults"
    /\ Step("env_defaults")
    /\ environ' = ForceCpu(environ)
    /\ pc' = "cpu_count"
    /\ UNCHANGED <<environ0, modelExists, libImportable, cpus, failAt,
                   modules, cpu_count, inference_threads, server_settings,
                   model_settings, app, runArgs, stderr, exitStatus>>

\* cpu_count = multiprocessing.cpu_count(); inference_threads = max(...)
CpuCount ==
    /\ pc = "cpu_count"
    /\ Step("cpu_count")
    /\ cpu_count' = <<cpus>>
    /\ inference_threads' = <<InferenceThreads(cpus)>>
    /\ pc' = "ServerSettings"
    /\ UNCHANGED <<environ, environ0, modelExists, libImportable, cpus,
                   failAt, modules, server_settings, model_settings, app,
                   runArgs, stderr, exitStatus>>

\* server_settings = ServerSettings(...)
BuildServerSettings ==
    /\ pc = "ServerSettings"
    /\ Step("ServerSettings")
    /\ IF failAt = "ServerSettings"
       THEN /\ Uncaught
            /\ UNCHANGED server_settings
       ELSE /\ server_settings' = <<ServerSettings>>
            /\ pc' = "ModelSettings"
            /\ UNCHANGED <<stderr, exitStatus>>
    /\ UNCHANGED <<environ, environ0, modelExists, libImportable, cpus,
                   failAt, modules, cpu_count, inference_threads,
                   model_settings, app, runArgs>>

\* model_settings = ModelSettings(...)
BuildModelSettings ==
    /\ pc = "ModelSettings"
    /\ Step("ModelSettings")
    /\ IF failAt = "ModelSettings"
       THEN /\ Uncaught
            /\ UNCHANGED model_settings
       ELSE /\ model_settings' =
                   <<ModelSettings(inference_threads[1], cpu_count[1])>>
            /\ pc' = "create_app"
            /\ UNCHANGED <<stderr, exitStatus>>
    /\ UNCHANGED <<environ, environ0, modelExists, libImportable, cpus,
                   failAt, modules, cpu_count, inference_threads,
                   server_settings, app, runArgs>>

CreateApp_Retry ==
    /\ pc = "create_app"
    /\ Step("create_app")
    /\ IF failAt = "create_app"
       THEN /\ pc' = "check_model"
            /\ UNCHANGED <<app, stderr, exitStatus>>
       ELSE /\ app' = <<[server_settings |-> server_settings[1],
                         model_settings |-> <<model_settings[1]>>]>>
            /\ pc' = "uvicorn"
            /\ UNCHANGED <<stderr, exitStatus>>
    /\ UNCHANGED <<environ, environ0, modelExists, libImportable, cpus,
                   failAt, modules, cpu_count, inference_threads,
                   server_settings, model_settings, runArgs>>

\* app = create_app(server_settings=..., model_settings=[model_settings])
CreateApp ==
    /\ pc = "create_app"
    /\ Step("create_app")
    /\ IF failAt = "create_app"
       THEN /\ Uncaught
            /\ UNCHANGED app
       ELSE /\ app' = <<[server_settings |-> server_settings[1],
                         model_settings |-> <<model_settings[1]>>]>>
            /\ pc' = "uvicorn"
            /\ UNCHANGED <<stderr, exitStatus>>
    /\ UNCHANGED <<environ, environ0, modelExists, libImportable, cpus,
                   failAt, modules, cpu_count, inference_threads,
                   server_settings, model_settings, runArgs>>

\* import uvicorn
ImportUvicorn ==
    /\ pc = "uvicorn"
    /\ Step("uvicorn")
    /\ IF failAt = "uvicorn"
       THEN /\ Uncaught
            /\ UNCHANGED modules
       ELSE /\ modules' = modules \cup {"uvicorn"}
            /\ pc' = "run"
            /\ UNCHANGED <<stderr, exitStatus>>
    /\ UNCHANGED <<environ, environ0, modelExists, libImportable, cpus,
                   failAt, cpu_count, inference_threads, server_settings,
                   model_settings, app, runArgs>>

Run_Return ==
    /\ pc = "run"
    /\ Step("run")
    /\ Exit(0)
    /\ UNCHANGED <<environ, environ0, modelExists, libImportable, cpus,
                   failAt, modules, cpu_count, inference_threads,
                   server_settings, model_settings, app, runArgs, stderr>>

\* uvicorn.run(app, host=..., port=..., ...): the call is entered and blocks
Run ==
    /\ pc = "run"
    /\ Step("run")
    /\ runArgs' = <<[app |-> app[1],
                     host |-> server_settings[1].host,
                     port |-> server_settings[1].port,
                     log_level |-> "info",
                     ssl_keyfile |-> server_settings[1].ssl_keyfile,
                     ssl_certfile |-> server_settings[1].ssl_certfile]>>
    /\ pc' = "serving"
    /\ UNCHANGED <<environ, environ0, modelExists, libImportable, cpus,
                   failAt, modules, cpu_count, inference_threads,
                   server_settings, model_settings, app, stderr, exitStatus>>

\* uvicorn.run returns (the server was interrupted); main() returns
RunnerReturns ==
    /\ pc = "serving"
    /\ Exit(0)
    /\ UNCHANGED <<environ, environ0, modelExists, libImportable, cpus,
                   failAt, modules, cpu_count, inference_threads,
                   server_settings, model_settings, app, runArgs, stderr,
                   trace>>

\* uvicorn.run raises; nothing in main() catches it
RunnerRaises ==
    /\ pc = "serving"
    /\ Uncaught
    /\ UNCHANGED <<environ, environ0, modelExists, libImportable, cpus,
                   failAt, modules, cpu_count, inference_threads,
                   server_settings, model_settings, app, runArgs, trace>>

Startup ==
    \/ CheckModel
    \/ ImportLib
    \/ EnvDefaults
    \/ CpuCount
    \/ BuildServerSettings
    \/ BuildModelSettings
    \/ CreateApp
    \/ ImportUvicorn
    \/ Run

Next ==
    \/ CheckModel
    \/ ImportLib
    \/ EnvDefaults
    \/ CpuCount
    \/ BuildServerSettings
    \/ BuildModelSettings
    \/ CreateApp
    \/ ImportUvicorn
    \/ Run
    \/ RunnerReturns
    \/ RunnerRaises

Spec == Init /\ [][Next]_vars

\* The interpreter runs main() to its end: a statement that can run does run.
\* Nothing makes the blocked uvicorn.run call return or raise.
FairSpec == Init /\ [][Next]_vars /\ WF_vars(Startup)

(* ------------------------- the checked claims ------------------------- *)

InTrace(name) == \E i \in 1..Len(trace) : trace[i] = name

IsPrefix(s, t) ==
    /\ Len(s) <= Len(t)
    /\ \A i \in 1..Len(s) : s[i] = t[i]

Printed(line) == \E i \in 1..Len(stderr) : stderr[i] = line

\* C1: when the model file does not exist, the run ends with status 1 after
\* printing one diagnostic, and nothing after the model check has happened:
\* no import, no settings, no app, no runner call.
C1_MissingModelExits ==
    (~modelExists /\ trace # <<>>) =>
        /\ pc = "exited"
        /\ exitStatus = <<1>>
        /\ stderr = MissingModelMsg
        /\ trace = <<"check_model">>
        /\ modules = {}
        /\ server_settings = <<>>
        /\ model_settings = <<>>
        /\ app = <<>>
        /\ runArgs = <<>>

C1_Witness == ~modelExists /\ pc = "exited" /\ exitStatus = <<1>>

\* C2: when the model file exists and the server library import raises
\* ImportError, the run ends with status 1, the install instruction is on the
\* error stream, and neither create_app nor the runner was called.
C2_MissingDependencyExits ==
    (modelExists /\ ~libImportable /\ InTrace("import_lib")) =>
        /\ pc = "exited"
        /\ exitStatus = <<1>>
        /\ Printed(InstallLine)
        /\ ~InTrace("create_app")
        /\ ~InTrace("run")
        /\ app = <<>>
        /\ runArgs = <<>>

C2_Witness ==
    modelExists /\ ~libImportable /\ pc = "exited" /\ Printed(InstallLine)

\* C3: every model configuration built has n_threads = max(C-1, 1) and
\* n_threads_batch = C for the detected CPU count C, hence
\* 1 <= n_threads <= n_threads_batch.
C3_ThreadAllocation ==
    model_settings # <<>> =>
        /\ model_settings[1].n_threads = (IF cpus = 1 THEN 1 ELSE cpus - 1)
        /\ model_settings[1].n_threads_batch = cpus
        /\ 1 <= model_settings[1].n_threads
        /\ model_settings[1].n_threads <= model_settings[1].n_threads_batch

C3_Witness ==
    /\ model_settings # <<>>
    /\ cpus = 1
    /\ model_settings[1].n_threads = 1

\* The disabled value the launcher gives each GPU variable.
GpuDefault(k) ==
    CASE k = "LLAMA_CUBLAS" -> "0"
      [] k = "LLAMA_METAL" -> "0"
      [] k = "CUDA_VISIBLE_DEVICES" -> "-1"

\* C4: after the force-CPU step each GPU variable that was absent at entry
\* holds its disabled value, each one that was set holds its original value,
\* and every other variable is as it was (present or absent, same value).
C4_EnvDefaults ==
    InTrace("env_defaults") =>
        /\ \A k \in GpuVars :
              /\ k \in DOMAIN environ
              /\ environ[k] =
                    (IF k \in DOMAIN environ0 THEN environ0[k] ELSE GpuDefault(k))
        /\ DOMAIN environ = DOMAIN environ0 \cup GpuVars
        /\ \A k \in DOMAIN environ0 \ GpuVars : environ[k] = environ0[k]

C4_Witness ==
    /\ InTrace("env_defaults")
    /\ "LLAMA_CUBLAS" \notin DOMAIN environ0
    /\ "CUDA_VISIBLE_DEVICES" \in DOMAIN environ0
    /\ environ0["CUDA_VISIBLE_DEVICES"] = "0"
    /\ environ["LLAMA_CUBLAS"] = "0"
    /\ environ["CUDA_VISIBLE_DEVICES"] = "0"
    /\ "PATH" \in DOMAIN environ0

\* C5: the step that sets the GPU-disabling defaults precedes the step that
\* imports the server library: whenever the import step has run, the
\* environment step ran before it.
C5_EnvBeforeImport ==
    \A i \in 1..Len(trace) :
        trace[i] = "import_lib" =>
            \E j \in 1..(i - 1) : trace[j] = "env_defaults"

\* C6: whatever the CPU count and the initial environment, a constructed
\* configuration has n_gpu_layers = 0, n_ctx = 32768, host 127.0.0.1 and port
\* 54546, and the runner is handed that same host and port.
C6_FixedConfig ==
    /\ model_settings # <<>> =>
          /\ model_settings[1].n_gpu_layers = 0
          /\ model_settings[1].n_ctx = 32768
    /\ server_settings # <<>> =>
          /\ server_settings[1].host = "127.0.0.1"
          /\ server_settings[1].port = 54546
    /\ runArgs # <<>> =>
          /\ runArgs[1].host = "127.0.0.1"
          /\ runArgs[1].port = 54546
          /\ runArgs[1].host = runArgs[1].app.server_settings.host
          /\ runArgs[1].port = runArgs[1].app.server_settings.port
          /\ runArgs[1].app.model_settings[1].n_gpu_layers = 0
          /\ runArgs[1].app.model_settings[1].n_ctx = 32768

C6_Witness ==
    /\ runArgs # <<>>
    /\ "LLAMA_CUBLAS" \in DOMAIN environ0
    /\ environ0["LLAMA_CUBLAS"] = "1"
    /\ "CUDA_VISIBLE_DEVICES" \in DOMAIN environ0
    /\ environ0["CUDA_VISIBLE_DEVICES"] = "0"
    /\ cpus = 3

NothingRaises == failAt = "none"

C8_AllOrNothing ==
    /\ [](IsPrefix(trace, Order))
    /\ [][/\ server_settings # <<>> => server_settings' = server_settings
          /\ model_settings # <<>> => model_settings' = model_settings
          /\ app # <<>> => app' = app]_vars
    /\ [](runArgs # <<>> =>
            /\ runArgs[1].app.server_settings = server_settings[1]
            /\ runArgs[1].app.model_settings = <<model_settings[1]>>)
    /\ []((failAt = "create_app" /\ InTrace("create_app")) =>
            /\ pc = "exited"
            /\ exitStatus = <<1>>
            /\ trace[Len(trace)] = "create_app"
            /\ runArgs = <<>>)
    /\ [][pc = "serving" => (pc' = "exited" /\ trace' = trace)]_vars
    /\ [][pc # "exited"]_vars

C8_Witness ==
    /\ failAt = "create_app"
    /\ pc = "exited"
    /\ InTrace("create_app")
    /\ server_settings # <<>>
    /\ model_settings # <<>>

\* C9: with the model file absent the install instruction is never printed;
\* if moreover the library is not importable the run ends with status 1
\* having printed the missing-model diagnostic alone.
C9_ModelCheckFirst ==
    /\ ~modelExists => ~Printed(InstallLine)
    /\ (~modelExists /\ ~libImportable /\ trace # <<>>) =>
          /\ pc = "exited"
          /\ exitStatus = <<1>>
          /\ stderr = MissingModelMsg
          /\ ~InTrace("import_lib")

C9_Witness ==
    /\ ~modelExists
    /\ ~libImportable
    /\ pc = "exited"
    /\ stderr = MissingModelMsg

\* C10: a run that ends in the missing-model or the missing-dependency error
\* leaves the environment exactly as it was at entry.
C10_EnvUntouchedOnFatal ==
    (pc = "exited" /\ (~modelExists \/ ~libImportable)) => environ = environ0

C10_Witness ==
    /\ pc = "exited"
    /\ modelExists
    /\ ~libImportable
    /\ InTrace("import_lib")
    /\ DOMAIN environ0 = {"PATH"}
    /\ environ = environ0

====
